---- MODULE Spec2Model ----
(***************************************************************************)
(* combineReducers for Immutable.js Map state                              *)
(* (src/combine-reducers-immutable.js).                                    *)
(*                                                                         *)
(* The model has one combined reducer: the mapping handed to               *)
(* combineReducers is chosen in Init, Construct runs combineReducers, and  *)
(* Call / Dispatch run the returned `combination` closure.                 *)
(*                                                                         *)
(* JS values are records [t, n] (t = typeof), so that undefined, numbers   *)
(* and strings can live in one Immutable Map.  An Immutable Map is a TLA+  *)
(* function whose DOMAIN is its key set.                                   *)
(***************************************************************************)
EXTENDS Integers, Sequences, FiniteSets, TLC

\* ------------------------------------------------------------------ bounds
\* Largest number the caller-supplied counter reducer counts to.
MaxCount == 2
\* Saturation of the per-key tally of unexpected-key diagnostics.
MaxWarned == 2

\* ------------------------------------------------------------- JS values
Undefined == [t |-> "undefined", n |-> 0]
Num(i) == [t |-> "number", n |-> i]
EmptyString == [t |-> "string", n |-> 0]

\* typeof v === 'undefined'
IsUndefined(v) == v.t = "undefined"

\* Slice names the caller may register, and keys a composite state may hold.
SliceNames == {"counter", "name"}
Keys == SliceNames \cup {"bogus"}

\* Values the caller puts into a hand-built composite state.
InputValues == {Num(0)}

\* -------------------------------------------------------------- actions
\* An action is [typed, type]; typed = FALSE is an action object without a
\* `type` field (action.type is undefined).  Action("") has a falsy type, as
\* has an action typed by the number 0.
ActionTypes_INIT == "@@redux/INIT"
ProbeType == "@@redux/PROBE_UNKNOWN_ACTION_r.a.n.d.o.m"
Action(type) == [typed |-> TRUE, type |-> type]
Untyped == [typed |-> FALSE, type |-> ""]
Actions == {Action("INC"), Action("BOOM"), Action("")}

\* ---------------------------------------------- caller-supplied reducers
\* The values of the mapping passed to combineReducers, named by kind.
\*   counter  : (s = 0, a) => a.type === 'INC' && typeof s === 'number'
\*                            && s < MaxCount ? s + 1 : s
\*   name     : (s = '', a) => s
\*   flaky    : (s = 0, a) => a.type === 'BOOM' || a.type === '' ? undefined : s
\*   bad      : () => undefined
\*   badProbe : (s, a) => a.type === '@@redux/INIT' ? 0 : s
\*   undefined, number : not functions (the value undefined, the value 42)
FunctionKinds == {"counter", "name", "flaky", "bad", "badProbe"}
ReducerKinds == FunctionKinds \cup {"undefined", "number"}

\* typeof reducers[reducerName]
TypeOf(kind) == IF kind \in FunctionKinds THEN "function" ELSE kind

\* reducer(s, a) for a function kind.
Reducer(kind, s, a) ==
  CASE kind = "counter" ->
         LET s0 == IF IsUndefined(s) THEN Num(0) ELSE s
         IN IF a.typed /\ a.type = "INC" /\ s0.t = "number" /\ s0.n < MaxCount
            THEN Num(s0.n + 1) ELSE s0
    [] kind = "name" -> IF IsUndefined(s) THEN EmptyString ELSE s
    [] kind = "flaky" ->
         IF a.typed /\ a.type \in {"BOOM", ""} THEN Undefined
         ELSE IF IsUndefined(s) THEN Num(0) ELSE s
    [] kind = "bad" -> Undefined
    [] kind = "badProbe" ->
         IF a.typed /\ a.type = ActionTypes_INIT THEN Num(0) ELSE s

\* Mappings {sliceName: value}: sequences of [name, kind] in Object.keys
\* order, names distinct.
Entries == [name : SliceNames, kind : ReducerKinds]
Mappings ==
  {<<>>} \cup {<<e>> : e \in Entries}
         \cup {<<e, f>> : <<e, f>> \in {p \in Entries \X Entries : p[1].name # p[2].name}}

\* Object.keys(reducers)
ObjectKeys(rs) == [i \in 1..Len(rs) |-> rs[i].name]
\* reducers.hasOwnProperty(key)
HasOwnProperty(rs, key) == \E i \in 1..Len(rs) : rs[i].name = key

\* ------------------------------------------------------ Immutable.js Map
EmptyMap == [k \in {} |-> Undefined]
\* Mutant: the slice is never read from the map.
MapGet_Absent(m, key) == Undefined
\* map.get(key): undefined for an absent key
MapGet(m, key) == IF key \in DOMAIN m THEN m[key] ELSE Undefined
\* Maps over a set of keys with values from a set
MapsOver(ks, vs) == UNION {[d -> vs] : d \in SUBSET ks}

\* Composite states a caller can pass: absent, an Immutable Map, a plain
\* object, null.
InputStates ==
  {[kind |-> "undefined", m |-> EmptyMap], [kind |-> "Null", m |-> EmptyMap]}
  \cup {[kind |-> "Map", m |-> m] : m \in MapsOver(Keys, InputValues)}
  \cup {[kind |-> "Object", m |-> ("counter" :> Num(0))]}

\* ------------------------------------------------- errors and diagnostics
\* actionName: `"<type>"` when action.type is truthy, else `an action`.
AnAction == [quoted |-> FALSE, text |-> "an action"]
NoMessage == [text |-> "", key |-> "", actionName |-> AnAction]
NoError == [kind |-> "none", message |-> NoMessage, ref |-> "none"]
\* new Error(message): a fresh object every time it is evaluated.
NewError(message) == [kind |-> "Error", message |-> message, ref |-> "fresh"]
\* The engine's TypeError for calling a method a value does not have.
NewTypeError(method) ==
  [kind |-> "TypeError",
   message |-> [text |-> "is not a function", key |-> method, actionName |-> AnAction],
   ref |-> "fresh"]

\* A diagnostic written by warning(message).
NoWarning == [text |-> "", keys |-> {}, typeName |-> "", argumentName |-> ""]
Warning(text, keys, typeName, argumentName) ==
  [text |-> text, keys |-> keys, typeName |-> typeName, argumentName |-> argumentName]

\* warning(message): console.error(message); the Error it throws is caught.
warning(console, message) == Append(console, message)

\* Mutant: the message never names the action type.
getUndefinedStateErrorMessage_NoType(key, action) ==
  [text |-> "returned undefined", key |-> key, actionName |-> AnAction]

\* getUndefinedStateErrorMessage(key, action)
getUndefinedStateErrorMessage(key, action) ==
  LET actionTypeTruthy == action.typed /\ action.type # ""
      actionName == IF actionTypeTruthy
                    THEN [quoted |-> TRUE, text |-> action.type]
                    ELSE AnAction
  IN [text |-> "returned undefined", key |-> key, actionName |-> actionName]

\* The `length` property read off the lazy Seq that keySeq().filter(...)
\* returns.  A filtered Seq has no known size and Immutable collections
\* carry `size`, not `length`, so the read yields undefined.
LazySeqLength(keys) == [defined |-> FALSE, n |-> Cardinality(keys)]
\* x > k in JS: false when x is undefined (NaN comparison).
JsGreater(x, k) == x.defined /\ x.n > k

\* ({}).toString.call(inputState).match(/\s([a-z|A-Z]+)/)[1]
TypeName(inputState) == inputState.kind

\* Immutable.Map.isMap(inputState)
IsMap(inputState) == inputState.kind = "Map"

\* getUnexpectedStateShapeWarningMessage(inputState, reducers, action,
\* unexpectedKeyCache): [message, cache], cache being unexpectedKeyCache
\* after the call (the function marks the keys it found).
getUnexpectedStateShapeWarningMessage(inputState, rs, action, cache) ==
  LET reducerKeys == ObjectKeys(rs)
      argumentName == IF action.typed /\ action.type = ActionTypes_INIT
                      THEN "preloadedState argument passed to createStore"
                      ELSE "previous state received by the reducer"
  IN IF Len(reducerKeys) = 0
     THEN [message |-> Warning("Store does not have a valid reducer", {}, "", ""),
           cache |-> cache]
     ELSE IF ~IsMap(inputState)
     THEN [message |-> Warning("unexpected type", {}, TypeName(inputState), argumentName),
           cache |-> cache]
     ELSE LET unexpectedKeys == {key \in DOMAIN inputState.m :
                                   ~HasOwnProperty(rs, key) /\ key \notin cache}
              marked == cache \cup unexpectedKeys
          IN IF JsGreater(LazySeqLength(unexpectedKeys), 0)
             THEN [message |-> Warning("Unexpected keys", unexpectedKeys, "", argumentName),
                   cache |-> marked]
             ELSE [message |-> NoWarning, cache |-> marked]

\* One reducer call, as logged: which slice, with which slice state and action.
CallRecord(name, arg, action) == [name |-> name, arg |-> arg, action |-> action]

\* assertReducerSanity(reducers) from entry i on: [error, calls]; error is
\* NoError when every reducer passed both probes.  forEach stops at the
\* first throw.
RECURSIVE SanityFrom(_, _, _)
SanityFrom(rs, i, calls) ==
  IF i > Len(rs) THEN [error |-> NoError, calls |-> calls]
  ELSE
    LET reducerName == rs[i].name
        initAction == Action(ActionTypes_INIT)
        initialState == Reducer(rs[i].kind, Undefined, initAction)
        calls1 == Append(calls, CallRecord(reducerName, Undefined, initAction))
        probe == Action(ProbeType)
        probed == Reducer(rs[i].kind, Undefined, probe)
        calls2 == Append(calls1, CallRecord(reducerName, Undefined, probe))
    IN IF IsUndefined(initialState)
       THEN [error |-> NewError([text |-> "returned undefined during initialization",
                                 key |-> reducerName, actionName |-> AnAction]),
             calls |-> calls1]
       ELSE IF IsUndefined(probed)
       THEN [error |-> NewError([text |-> "returned undefined when probed with a random type",
                                 key |-> reducerName, actionName |-> AnAction]),
             calls |-> calls2]
       ELSE SanityFrom(rs, i + 1, calls2)

\* Mutant: only the initialization probe is made.
RECURSIVE SanityInitOnlyFrom(_, _, _)
SanityInitOnlyFrom(rs, i, calls) ==
  IF i > Len(rs) THEN [error |-> NoError, calls |-> calls]
  ELSE
    LET initAction == Action(ActionTypes_INIT)
        calls1 == Append(calls, CallRecord(rs[i].name, Undefined, initAction))
    IN IF IsUndefined(Reducer(rs[i].kind, Undefined, initAction))
       THEN [error |-> NewError([text |-> "returned undefined during initialization",
                                 key |-> rs[i].name, actionName |-> AnAction]),
             calls |-> calls1]
       ELSE SanityInitOnlyFrom(rs, i + 1, calls1)
assertReducerSanity_InitOnly(rs) == SanityInitOnlyFrom(rs, 1, <<>>)

\* assertReducerSanity(reducers)
assertReducerSanity(rs) == SanityFrom(rs, 1, <<>>)

\* --------------------------------------------------------------- state
VARIABLES
  pc,                 \* "new" before combineReducers ran, "ready" after
  NODE_ENV,           \* process.env.NODE_ENV, read once at module load
  reducers,           \* the mapping passed to combineReducers
  finalReducers,      \* the retained (function-valued) entries
  sanityError,        \* the error assertReducerSanity threw, or NoError
  unexpectedKeyCache, \* keys already flagged (diagnostic mode only)
  op,                 \* the operation that ran last: "none", "construct", "invoke"
  argState,           \* the state argument of the last invocation
  argAction,          \* the action argument of the last invocation
  outcome,            \* what the last operation did: returned a value or threw
  calls,              \* the reducer calls the last operation made, in order
  console,            \* the diagnostics the last operation wrote
  store,              \* the composite state the caller holds
  raisedBefore,       \* an invocation before the last one threw
  warned              \* per key, how many unexpected-key diagnostics named it

vars == <<pc, NODE_ENV, reducers, finalReducers, sanityError, unexpectedKeyCache,
          op, argState, argAction, outcome, calls, console, store, raisedBefore, warned>>

NoOutcome == [kind |-> "none", error |-> NoError, m |-> EmptyMap, sameRef |-> FALSE]
Returned(m, sameRef) == [kind |-> "returned", error |-> NoError, m |-> m, sameRef |-> sameRef]
Threw(error) == [kind |-> "threw", error |-> error, m |-> EmptyMap, sameRef |-> FALSE]

\* finalReducerNames = Object.keys(finalReducers)
finalReducerNames == ObjectKeys(finalReducers)

\* The filter of combineReducers: keep the entries whose value is a function.
Retained(entry) == TypeOf(entry.kind) = "function"

\* Mutant: the missing-reducer diagnostic ignores NODE_ENV.
RECURSIVE MissingWarnings_AnyEnv(_, _, _, _)
MissingWarnings_AnyEnv(rs, env, i, out) ==
  IF i > Len(rs) THEN out
  ELSE MissingWarnings_AnyEnv(rs, env, i + 1,
         IF TypeOf(rs[i].kind) = "undefined"
         THEN warning(out, Warning("No reducer provided for key", {rs[i].name}, "", ""))
         ELSE out)

\* The missing-reducer diagnostics of the construction loop.
RECURSIVE MissingWarnings(_, _, _, _)
MissingWarnings(rs, env, i, out) ==
  IF i > Len(rs) THEN out
  ELSE MissingWarnings(rs, env, i + 1,
         IF env # "production" /\ TypeOf(rs[i].kind) = "undefined"
         THEN warning(out, Warning("No reducer provided for key", {rs[i].name}, "", ""))
         ELSE out)

\* Mutant: every set counts as an alteration.
TransientSet_AlwaysAltered(t, key, value) ==
  [m |-> (key :> value) @@ t.m, altered |-> TRUE]

\* transientState.set(key, value) inside withMutations: the transient map
\* and whether it was altered.  Immutable's set is a no-op when the key
\* already holds that very value.
TransientSet(t, key, value) ==
  IF key \in DOMAIN t.m /\ t.m[key] = value
  THEN t
  ELSE [m |-> (key :> value) @@ t.m, altered |-> TRUE]

\* The forEach over finalReducerNames inside withMutations, from entry i:
\* [error, t, calls].  A throw ends the loop and discards the transient.
RECURSIVE ForEachReducer(_, _, _, _, _)
ForEachReducer(rs, action, i, t, log) ==
  IF i > Len(rs) THEN [error |-> NoError, t |-> t, calls |-> log]
  ELSE
    LET reducerName == rs[i].name
        currentStateForReducer == MapGet(t.m, reducerName)
        nextStateForReducer == Reducer(rs[i].kind, currentStateForReducer, action)
        log1 == Append(log, CallRecord(reducerName, currentStateForReducer, action))
    IN IF IsUndefined(nextStateForReducer)
       THEN [error |-> NewError(getUndefinedStateErrorMessage(reducerName, action)),
             t |-> t, calls |-> log1]
       ELSE ForEachReducer(rs, action, i + 1,
                           TransientSet(t, reducerName, nextStateForReducer), log1)

\* Mutant: the result is built from an empty map, as the plain-object
\* original builds nextState = {}.
withMutations_FromEmpty(state, rs, action) ==
  IF ~IsMap(state)
  THEN [outcome |-> Threw(NewTypeError("withMutations")), calls |-> <<>>]
  ELSE LET r == ForEachReducer(rs, action, 1, [m |-> EmptyMap, altered |-> FALSE], <<>>)
       IN IF r.error # NoError
          THEN [outcome |-> Threw(r.error), calls |-> r.calls]
          ELSE [outcome |-> Returned(r.t.m, ~r.t.altered), calls |-> r.calls]

\* state.withMutations(fn): a TypeError when state has no such method (a
\* plain object, null); otherwise fn runs on a mutable copy, and the result
\* is the input map itself when the copy was not altered.
withMutations(state, rs, action) ==
  IF ~IsMap(state)
  THEN [outcome |-> Threw(NewTypeError("withMutations")), calls |-> <<>>]
  ELSE LET r == ForEachReducer(rs, action, 1, [m |-> state.m, altered |-> FALSE], <<>>)
       IN IF r.error # NoError
          THEN [outcome |-> Threw(r.error), calls |-> r.calls]
          ELSE [outcome |-> Returned(r.t.m, ~r.t.altered), calls |-> r.calls]

\* Mutant: no default for an absent state.
DefaultState_NoDefault(state) == state

\* `state = Immutable.Map()`: the default applies to undefined only.
DefaultState(state) ==
  IF state.kind = "undefined" THEN [kind |-> "Map", m |-> EmptyMap] ELSE state

\* Mutant: the sanity gate of combination is missing.
HasSanityError_Never(error) == FALSE

\* if (sanityError)
HasSanityError(error) == error # NoError

\* The error `throw sanityError` raises: the captured object itself.
ThrowSanityError(error) == [error EXCEPT !.ref = "captured"]

\* Whether the value returned is the very object the caller passed: the
\* receiver of withMutations is the caller's argument unless the default
\* parameter replaced it.
SameReference(stateArg, o) ==
  [o EXCEPT !.sameRef = (o.kind = "returned" /\ o.sameRef /\ stateArg.kind # "undefined")]

\* combination(state, action): [outcome, calls, console, cache].
combination(stateArg, action) ==
  LET state == DefaultState(stateArg)
  IN IF HasSanityError(sanityError)
     THEN [outcome |-> Threw(ThrowSanityError(sanityError)), calls |-> <<>>,
           console |-> <<>>, cache |-> unexpectedKeyCache]
     ELSE
       LET w == IF NODE_ENV # "production"
                THEN getUnexpectedStateShapeWarningMessage(
                       state, finalReducers, action, unexpectedKeyCache)
                ELSE [message |-> NoWarning, cache |-> unexpectedKeyCache]
           out == IF w.message # NoWarning THEN warning(<<>>, w.message) ELSE <<>>
           r == withMutations(state, finalReducers, action)
       IN [outcome |-> SameReference(stateArg, r.outcome), calls |-> r.calls,
           console |-> out, cache |-> w.cache]

\* The tally of unexpected-key diagnostics after a console was written.
Tally(w, out) ==
  [k \in Keys |->
     LET n == w[k] + Cardinality({i \in 1..Len(out) :
                                    out[i].text = "Unexpected keys" /\ k \in out[i].keys})
     IN IF n > MaxWarned THEN MaxWarned ELSE n]

\* ---------------------------------------------------------------- actions
Init ==
  /\ pc = "new"
  /\ NODE_ENV \in {"development", "production"}
  /\ reducers \in Mappings
  /\ finalReducers = <<>>
  /\ sanityError = NoError
  /\ unexpectedKeyCache = {}
  /\ op = "none"
  /\ argState = [kind |-> "undefined", m |-> EmptyMap]
  /\ argAction = Untyped
  /\ outcome = NoOutcome
  /\ calls = <<>>
  /\ console = <<>>
  /\ store = [kind |-> "undefined", m |-> EmptyMap]
  /\ raisedBefore = FALSE
  /\ warned = [k \in Keys |-> 0]

\* combineReducers(reducers)
Construct ==
  /\ pc = "new"
  /\ LET final == SelectSeq(reducers, Retained)
         sanity == assertReducerSanity(final)
     IN /\ finalReducers' = final
        /\ sanityError' = sanity.error
        /\ calls' = sanity.calls
        /\ console' = MissingWarnings(reducers, NODE_ENV, 1, <<>>)
  /\ unexpectedKeyCache' = {}
  /\ pc' = "ready"
  /\ op' = "construct"
  /\ outcome' = Returned(EmptyMap, FALSE)
  /\ UNCHANGED <<NODE_ENV, reducers, argState, argAction, store, raisedBefore, warned>>

\* One invocation of the combined reducer; on a return the caller keeps the
\* result as its state.
Invoke(state, action) ==
  /\ pc = "ready"
  /\ LET r == combination(state, action)
     IN /\ outcome' = r.outcome
        /\ calls' = r.calls
        /\ console' = r.console
        /\ unexpectedKeyCache' = r.cache
        /\ warned' = Tally(warned, r.console)
        /\ store' = IF r.outcome.kind = "returned"
                    THEN [kind |-> "Map", m |-> r.outcome.m] ELSE store
  /\ argState' = state
  /\ argAction' = action
  /\ op' = "invoke"
  /\ raisedBefore' = (raisedBefore \/ (op = "invoke" /\ outcome.kind = "threw"))
  /\ UNCHANGED <<pc, NODE_ENV, reducers, finalReducers, sanityError>>

\* The caller invokes the combined reducer with a state of its own making.
Call == \E state \in InputStates, action \in Actions : Invoke(state, action)

\* The caller feeds the state it holds back in (a store dispatching).
Dispatch == \E action \in Actions : Invoke(store, action)

Next == Construct \/ Call \/ Dispatch

Spec == Init /\ [][Next]_vars

\* ------------------------------------------------------------- type check
TypeOK ==
  /\ pc \in {"new", "ready"}
  /\ op \in {"none", "construct", "invoke"}
  /\ unexpectedKeyCache \subseteq Keys
  /\ outcome.kind \in {"none", "returned", "threw"}
  /\ DOMAIN store.m \subseteq Keys

\* ------------------------------------------- vocabulary of the properties
\* A mapping entry whose value is a callable function.
IsCallable(entry) == entry.kind \in FunctionKinds
\* The registered slices, in registration order.
Registered == SelectSeq(reducers, IsCallable)
RegisteredNames == {Registered[i].name : i \in 1..Len(Registered)}
\* The combined reducer ran last, and construction captured no sanity error.
Invoked == pc = "ready" /\ op = "invoke"
Healthy == sanityError = NoError
Diagnostic == NODE_ENV # "production"
\* The map the invocation worked on: the argument, or the empty map when the
\* argument was absent.
S == IF argState.kind = "Map" THEN argState.m ELSE EmptyMap
OnMap == argState.kind \in {"Map", "undefined"}
\* What the i-th registered reducer yields for its slice of S and the action.
SliceResult(i) == Reducer(Registered[i].kind, MapGet(S, Registered[i].name), argAction)
AllDefined == \A i \in 1..Len(Registered) : ~IsUndefined(SliceResult(i))
\* The first registered slice whose reducer yields undefined (0 when none).
FirstUndefined ==
  IF AllDefined THEN 0
  ELSE CHOOSE i \in 1..Len(Registered) :
         /\ IsUndefined(SliceResult(i))
         /\ \A j \in 1..(i - 1) : ~IsUndefined(SliceResult(j))
\* The calls a pass over the first n registered slices makes.
ExpectedCalls(n) ==
  [i \in 1..n |-> CallRecord(Registered[i].name, MapGet(S, Registered[i].name), argAction)]
CounterAndName ==
  reducers = <<[name |-> "counter", kind |-> "counter"], [name |-> "name", kind |-> "name"]>>

\* ----------------------------------------------------------------- C1
\* C1: a healthy combined reducer, invoked on a map (or absent) state S with
\* an action every registered reducer answers, returns a map holding
\* reducer_n(S.get(n), a) under every registered name n, having called each
\* registered reducer once, in registration order, with that action; an
\* absent state counts as the empty map; counter/name count 1 then 2 on INC.
C1_SinglePass ==
  (Invoked /\ Healthy /\ OnMap /\ AllDefined) =>
    /\ outcome.kind = "returned"
    /\ \A i \in 1..Len(Registered) :
         /\ Registered[i].name \in DOMAIN outcome.m
         /\ outcome.m[Registered[i].name] = SliceResult(i)
    /\ calls = ExpectedCalls(Len(Registered))
    /\ (argState.kind = "undefined" => DOMAIN outcome.m = RegisteredNames)
    /\ (CounterAndName /\ argAction = Action("INC") /\ S = EmptyMap) =>
         outcome.m = ("counter" :> Num(1)) @@ ("name" :> EmptyString)
    /\ (CounterAndName /\ argAction = Action("INC")
          /\ S = ("counter" :> Num(1)) @@ ("name" :> EmptyString)) =>
         outcome.m = ("counter" :> Num(2)) @@ ("name" :> EmptyString)

C1_Witness ==
  /\ Invoked /\ Healthy /\ CounterAndName
  /\ argAction = Action("INC")
  /\ argState = [kind |-> "Map", m |-> ("counter" :> Num(1)) @@ ("name" :> EmptyString)]
  /\ outcome.kind = "returned"
  /\ outcome.m["counter"] = Num(2)
  /\ Len(calls) = 2

\* ----------------------------------------------------------------- C2
\* Some retained reducer returns undefined for the initialization probe or
\* for the random unknown-type probe.
SomeProbeFails ==
  \E i \in 1..Len(Registered) :
    \/ IsUndefined(Reducer(Registered[i].kind, Undefined, Action(ActionTypes_INIT)))
    \/ IsUndefined(Reducer(Registered[i].kind, Undefined, Action(ProbeType)))

\* C2: when some retained reducer fails a construction probe,
\* combineReducers returns normally with one captured error, and every
\* invocation afterwards throws that same error object, writes no
\* diagnostic and calls no slice reducer.
C2_StickySanityError ==
  (pc = "ready" /\ SomeProbeFails) =>
    /\ sanityError.kind = "Error"
    /\ sanityError.message.text \in {"returned undefined during initialization",
                                     "returned undefined when probed with a random type"}
    /\ op = "construct" => outcome.kind = "returned"
    /\ op = "invoke" =>
         /\ outcome.kind = "threw"
         /\ outcome.error.ref = "captured"
         /\ outcome.error.message = sanityError.message
         /\ console = <<>>
         /\ calls = <<>>

C2_Witness ==
  /\ Invoked /\ SomeProbeFails /\ raisedBefore
  /\ outcome.kind = "threw"
  /\ outcome.error.message.text = "returned undefined when probed with a random type"
  /\ argState.kind = "Map"

\* ----------------------------------------------------------------- C3
\* The action's discriminant as an error message shows it.
NamedAction == [quoted |-> TRUE, text |-> argAction.type]

C3_State ==
  (Invoked /\ Healthy /\ argState.kind = "Map" /\ ~AllDefined) =>
    /\ outcome.kind = "threw"
    /\ outcome.error.kind = "Error"
    /\ outcome.error.ref = "fresh"
    /\ outcome.error.message.text = "returned undefined"
    /\ outcome.error.message.key = Registered[FirstUndefined].name
    /\ outcome.error.message.actionName =
         IF argAction.typed /\ argAction.type # "" THEN NamedAction ELSE AnAction
    /\ outcome.m = EmptyMap
    /\ calls = ExpectedCalls(FirstUndefined)

\* An invocation that throws leaves the state the caller holds as it was.
C3_Frame == (op' = "invoke" /\ outcome'.kind = "threw") => store' = store

\* C3 (amended): a healthy combined reducer invoked on a map state S with an
\* action X for which some registered reducer yields undefined throws an
\* Error naming the first such slice and, when X's type is truthy, X's type
\* (otherwise the message says `an action`); it returns no composite state,
\* calls no reducer registered after that slice, and leaves the caller's
\* state alone.
C3_RuntimeUndefined == []C3_State /\ [][C3_Frame]_vars

\* C3 (as claimed): the Runtime Undefined-Result Error names the first slice
\* whose reducer yields undefined and the type discriminant of the action.
C3_NamesSliceAndType ==
  (Invoked /\ Healthy /\ argState.kind = "Map" /\ ~AllDefined /\ argAction.typed) =>
    /\ outcome.kind = "threw"
    /\ outcome.error.message.key = Registered[FirstUndefined].name
    /\ outcome.error.message.actionName = NamedAction

C3_Witness ==
  /\ Invoked /\ Healthy /\ argState.kind = "Map"
  /\ Len(Registered) = 2 /\ FirstUndefined = 1
  /\ argAction = Action("BOOM")
  /\ outcome.kind = "threw"
  /\ Len(calls) = 1
  /\ "bogus" \in DOMAIN store.m

\* ----------------------------------------------------------------- C4
\* C4 (as claimed): in diagnostic mode, once a healthy combined reducer with
\* a registered slice has been invoked with a map state holding the
\* unregistered key "bogus", exactly one diagnostic has named "bogus".
C4_OneBogusDiagnostic ==
  (Invoked /\ Healthy /\ Diagnostic /\ Len(Registered) >= 1
     /\ argState.kind = "Map" /\ "bogus" \in DOMAIN argState.m)
    => warned["bogus"] = 1

\* ----------------------------------------------------------------- C5
\* C5 (as claimed): a successful invocation never returns the reference it
\* was given.
C5_AlwaysNewReference ==
  (Invoked /\ outcome.kind = "returned") => ~outcome.sameRef

\* C5 (amended): a successful invocation returns the reference it was given
\* exactly when the state was a map and no slice changed (every reducer
\* returned the value its slice already held, or none is registered);
\* otherwise it returns a new composite value.
C5_NewReferenceIffChanged ==
  (Invoked /\ outcome.kind = "returned") =>
    (outcome.sameRef <=> (argState.kind = "Map" /\ outcome.m = argState.m))

C5_Witness ==
  /\ Invoked /\ Healthy /\ Len(Registered) = 2
  /\ argState.kind = "Map"
  /\ outcome.kind = "returned"
  /\ outcome.sameRef
  /\ raisedBefore

\* ----------------------------------------------------------------- C6
C6_State ==
  Invoked =>
    /\ (~SomeProbeFails /\ OnMap /\ AllDefined) => outcome.kind = "returned"
    /\ SomeProbeFails => outcome.kind = "threw"

\* The captured sanity error is never reassigned after construction.
C6_Fixed == pc = "ready" => sanityError' = sanityError

\* C6: health is fixed at construction: a combined reducer whose reducers
\* all passed both probes returns a state for every map state and action
\* its reducers answer, whatever was raised or reported before; one that
\* captured a sanity error never returns a state.
C6_HealthFixed == []C6_State /\ [][C6_Fixed]_vars

C6_Witness ==
  /\ Invoked /\ ~SomeProbeFails /\ Len(Registered) >= 1
  /\ raisedBefore
  /\ outcome.kind = "returned"

\* ----------------------------------------------------------------- C7
\* C7 (as claimed): in diagnostic mode a healthy combined reducer with a
\* registered slice, invoked with a state that is not an Immutable Map,
\* writes the type-mismatch diagnostic and still returns a composite state.
C7_TypeMismatchContinues ==
  (Invoked /\ Healthy /\ Diagnostic /\ Len(Registered) >= 1
     /\ argState.kind \in {"Object", "Null"})
    => /\ \E i \in 1..Len(console) : console[i].text = "unexpected type"
       /\ outcome.kind = "returned"

\* ----------------------------------------------------------------- C8
\* Every registered reducer echoes its slice of S for the action.
AllEcho ==
  \A i \in 1..Len(Registered) : SliceResult(i) = MapGet(S, Registered[i].name)

\* C8: on a map state whose keys are exactly the registered names, an action
\* every reducer answers by echoing its slice yields a state equal in
\* content to the input.
C8_NoOpPreservesContent ==
  (Invoked /\ Healthy /\ argState.kind = "Map"
     /\ DOMAIN argState.m = RegisteredNames /\ AllEcho)
    => /\ outcome.kind = "returned"
       /\ DOMAIN outcome.m = DOMAIN argState.m
       /\ \A k \in DOMAIN argState.m : outcome.m[k] = argState.m[k]

C8_Witness ==
  /\ Invoked /\ Healthy /\ argState.kind = "Map"
  /\ Len(Registered) = 2
  /\ DOMAIN argState.m = RegisteredNames /\ AllEcho
  /\ argState.m["name"] = EmptyString
  /\ outcome.kind = "returned"

\* ----------------------------------------------------------------- C9
\* The names of the mapping's entries that are not functions.
DroppedNames == {reducers[i].name : i \in {j \in 1..Len(reducers) : ~IsCallable(reducers[j])}}
\* How many diagnostics of the console report a missing reducer for a name.
MissingCount(n) ==
  Cardinality({i \in 1..Len(console) :
                 console[i].text = "No reducer provided for key" /\ console[i].keys = {n}})

\* C9: construction retains exactly the function-valued entries; a dropped
\* entry is never probed, never invoked and never written into a result;
\* construction does not raise, and writes one missing-reducer diagnostic
\* per undefined-valued entry in diagnostic mode and none in production.
C9_FilterAndMissingDiagnostic ==
  pc = "ready" =>
    /\ finalReducers = Registered
    /\ \A i \in 1..Len(calls) : calls[i].name \notin DroppedNames
    /\ (op = "invoke" /\ outcome.kind = "returned") =>
         \A n \in DroppedNames :
           /\ n \in DOMAIN outcome.m <=> n \in DOMAIN S
           /\ n \in DOMAIN S => outcome.m[n] = S[n]
    /\ op = "construct" =>
         /\ outcome.kind = "returned"
         /\ \A i \in 1..Len(reducers) :
              MissingCount(reducers[i].name) =
                IF Diagnostic /\ reducers[i].kind = "undefined" THEN 1 ELSE 0
         /\ Len(console) =
              IF Diagnostic
              THEN Cardinality({i \in 1..Len(reducers) : reducers[i].kind = "undefined"})
              ELSE 0

C9_Witness ==
  /\ pc = "ready" /\ op = "construct" /\ Diagnostic
  /\ Len(reducers) = 2 /\ Len(finalReducers) = 1
  /\ Len(console) = 1
  /\ Len(calls) = 2

\* ---------------------------------------------------------------- C10
\* The keys of a map that name no registered slice.
UnexpectedKeysOf(m) == DOMAIN m \ RegisteredNames

C10_State ==
  (Invoked /\ Healthy /\ argState.kind = "Map" /\ outcome.kind = "returned") =>
    /\ \A k \in UnexpectedKeysOf(argState.m) :
         k \in DOMAIN outcome.m /\ outcome.m[k] = argState.m[k]
    /\ DOMAIN outcome.m = DOMAIN argState.m \cup RegisteredNames
    /\ store.m = outcome.m

\* Feeding the held state back in never loses one of its unexpected keys.
C10_Accumulate ==
  (pc = "ready" /\ store.kind = "Map" /\ argState' = store /\ outcome'.kind = "returned")
    => UnexpectedKeysOf(store.m) \subseteq DOMAIN store'.m

====
